---- MODULE Spec2Model ----
(***************************************************************************)
(* State-machine model of autoTwitchDrops/miner.py (class TwitchMiner):    *)
(* the run loop (run, pick_streamer, watch), the reconcile pass            *)
(* (update_inventory, update_campaigns), the claim pass (claim_all_drops), *)
(* the channel selector (get_channel_to_mine, get_online_channels) and the *)
(* event-stream listener (handle_websocket).                               *)
(*                                                                         *)
(* asyncio is single-threaded and cooperative: a task runs until it        *)
(* awaits.  Every action of the main task therefore models the code from   *)
(* the return of one awaited call to the start of the next awaited call,   *)
(* and pc names the call the main task is suspended in.                    *)
(***************************************************************************)
EXTENDS Integers, Sequences, FiniteSets, TLC

(***************************************************************************)
(* Bounds of the model.                                                    *)
(***************************************************************************)
MaxTime == 1         \* required_time in 1..MaxTime, watched_time in 0..MaxTime
MaxInvDrops == 2     \* drops per in-progress campaign of a snapshot (SpecClaim)
MaxDrops == 2        \* drops per listed campaign (SpecReconcile)
MaxCampaigns == 2    \* listed campaigns (SpecSelect)

(***************************************************************************)
(* Python's None for an id-valued field, and the absent Channel.           *)
(***************************************************************************)
None == "None"
NoChannel == [id |-> None, nickname |-> None, game |-> None]

(***************************************************************************)
(* The platform's identifiers: benefit, game and channel ids are opaque    *)
(* values that the code only compares for equality.                        *)
(***************************************************************************)
Benefits == {"b1", "b2"}
Games == {"g1", "g2"}
ChannelIds == {"c1", "c2"}

(***************************************************************************)
(* Sequence helpers.                                                       *)
(***************************************************************************)
SeqsUpTo(S, n) == UNION {[1..k -> S] : k \in 0..n}

Range(s) == {s[i] : i \in 1..Len(s)}

RECURSIVE Flatten(_)
Flatten(ss) == IF ss = <<>> THEN <<>> ELSE Head(ss) \o Flatten(Tail(ss))

\* Python's `del s[j]` (1-based here); an index past the end leaves s alone
\* (the code never produces one).
DelAt(s, j) ==
    IF j \in 1..Len(s)
    THEN [i \in 1..(Len(s) - 1) |-> IF i < j THEN s[i] ELSE s[i + 1]]
    ELSE s

\* `for j in order: del s[j]`
RECURSIVE DelEach(_, _)
DelEach(s, order) ==
    IF order = <<>> THEN s ELSE DelEach(DelAt(s, Head(order)), Tail(order))

\* Python's sorted(s, reverse=True) for a list of distinct integers.
RECURSIVE SortedDesc(_)
SortedDesc(s) ==
    IF s = <<>> THEN <<>>
    ELSE LET m == CHOOSE x \in Range(s) : \A y \in Range(s) : y <= x
             k == CHOOSE i \in 1..Len(s) : s[i] = m
         IN <<m>> \o SortedDesc(DelAt(s, k))

(***************************************************************************)
(* Entity records.  Campaign, Drop and Channel are imported by miner.py    *)
(* from the package; the model keeps the fields miner.py reads.            *)
(*   Drop:     id_ (also its instanceId), benefits_ids, required_time,     *)
(*             watched_time, claimed                                       *)
(*   Campaign: id_, game (its id; displayName and slug are the same        *)
(*             value), channelsEnabled, channels, drops                    *)
(*   Channel:  id, nickname, game (its id)                                 *)
(***************************************************************************)
Campaign(x) ==
    [id_ |-> x.id_, game |-> x.game, channelsEnabled |-> x.channelsEnabled,
     channels |-> x.channels, drops |-> x.drops]

Channel(user) == [id |-> user.id, nickname |-> user.id, game |-> user.game]

(***************************************************************************)
(* update_inventory: the inventory list and claimed_drops_ids built from   *)
(* one get_inventory() response.                                           *)
(***************************************************************************)
\* `if inventory.get("dropCampaignsInProgress")` ... else []
InventoryOf(response) ==
    [i \in 1..Len(response.dropCampaignsInProgress) |->
        Campaign(response.dropCampaignsInProgress[i])]

\* `if drop.claimed or drop.required_time <= drop.watched_time`
\* (seeded fault for C1: DropDone without the watched-time test)
DropDoneMissesWatched(drop) == drop.claimed
DropDone(drop) == drop.claimed \/ drop.required_time <= drop.watched_time

\* the benefits a drop appends to claimed_drops_ids
DropAppends(drop) == IF DropDone(drop) THEN drop.benefits_ids ELSE <<>>

CampaignAppends(campaign) ==
    Flatten([j \in 1..Len(campaign.drops) |-> DropAppends(campaign.drops[j])])

\* `self.claimed_drops_ids = []`, the appends of the nested loops, then the
\* ids of the gameEventDrops entries
ClaimedDropsIds(inv, response) ==
    Flatten([i \in 1..Len(inv) |-> CampaignAppends(inv[i])])
        \o response.gameEventDrops

(***************************************************************************)
(* update_campaigns.                                                       *)
(***************************************************************************)
\* `[campaign["id"] for campaign in response if campaign["status"] == "ACTIVE"]`
IsActive(c) == c.status = "ACTIVE"
CampaignsIds(response) ==
    LET act == SelectSeq(response, IsActive)
    IN [i \in 1..Len(act) |-> act[i].id_]

\* `self.campaigns = [Campaign(x["user"]["dropCampaign"]) for x in response]`,
\* as an assignment to the field: the old value is dropped.
\* (seeded fault for C9: the list is extended instead of assigned)
SetCampaignsExtends(old, response) ==
    old \o [i \in 1..Len(response) |-> Campaign(response[i])]
SetCampaigns(old, response) ==
    [i \in 1..Len(response) |-> Campaign(response[i])]

\* the inner loop over drop.benefits_ids with its break
\* (seeded fault for C2: the test asks whether anything is claimed at all)
DropMatchesWhenAnyClaimed(drop, claimed) == claimed # <<>>
DropMatches(drop, claimed) ==
    \E k \in 1..Len(drop.benefits_ids) : drop.benefits_ids[k] \in Range(claimed)

\* drops_to_remove[i]: the indices j appended, ascending
RECURSIVE DropsToRemove(_, _, _)
DropsToRemove(drops, j, claimed) ==
    IF j > Len(drops) THEN <<>>
    ELSE (IF DropMatches(drops[j], claimed) THEN <<j>> ELSE <<>>)
            \o DropsToRemove(drops, j + 1, claimed)

\* `for j in sorted(drop_indices, reverse=True): del self.campaigns[i].drops[j]`
DeletionOrder(drop_indices) == SortedDesc(drop_indices)

RemoveDrops(campaign, claimed) ==
    [campaign EXCEPT !.drops =
        DelEach(campaign.drops,
                DeletionOrder(DropsToRemove(campaign.drops, 1, claimed)))]

\* `for i, campaign in reversed(list(enumerate(self.campaigns)))`:
\* `if len(campaign.drops) == 0: del self.campaigns[i]`, i going down
RECURSIVE RemoveEmptyFrom(_, _)
RemoveEmptyFrom(cs, i) ==
    IF i < 1 THEN cs
    ELSE IF Len(cs[i].drops) = 0
         THEN RemoveEmptyFrom(DelAt(cs, i), i - 1)
         ELSE RemoveEmptyFrom(cs, i - 1)

\* (seeded fault for C10: the removal of empty campaigns left out)
RemoveEmptyCampaignsSkipped(cs) == cs
RemoveEmptyCampaigns(cs) == RemoveEmptyFrom(cs, Len(cs))

\* the whole method after the two API calls; campaigns_to_remove stays empty
UpdateCampaigns(old, response, claimed) ==
    LET built == SetCampaigns(old, response)
        cut == [i \in 1..Len(built) |-> RemoveDrops(built[i], claimed)]
    IN RemoveEmptyCampaigns(cut)

(***************************************************************************)
(* claim_all_drops: the nested loops visit the drops of self.inventory in  *)
(* order; InventoryDrops is that visiting order.                           *)
(***************************************************************************)
InventoryDrops(inv) == Flatten([i \in 1..Len(inv) |-> inv[i].drops])

\* `if drop.required_time <= drop.watched_time and drop.claimed is False`
\* (seeded fault for C3: IsDue without the claimed test)
IsDueIgnoresClaimed(drop) == drop.required_time <= drop.watched_time
IsDue(drop) == drop.required_time <= drop.watched_time /\ drop.claimed = FALSE

\* the first index k >= from of a due drop, or 0 when the loops run out
NextDue(drops, from) ==
    IF \E k \in from..Len(drops) : IsDue(drops[k])
    THEN CHOOSE k \in from..Len(drops) :
            IsDue(drops[k]) /\ \A h \in from..(k - 1) : ~IsDue(drops[h])
    ELSE 0

(***************************************************************************)
(* sort_campaigns (utils): a deterministic total order; ascending id_.     *)
(***************************************************************************)
RECURSIVE sort_campaigns(_)
sort_campaigns(cs) ==
    IF cs = <<>> THEN <<>>
    ELSE LET k == CHOOSE i \in 1..Len(cs) :
                    \A h \in 1..Len(cs) :
                        cs[i].id_ < cs[h].id_ \/ (cs[i].id_ = cs[h].id_ /\ i <= h)
         IN <<cs[k]>> \o sort_campaigns(DelAt(cs, k))

(***************************************************************************)
(* get_channel_to_mine and get_online_channels.                            *)
(***************************************************************************)
\* `if self.game and self.game != campaign.game["displayName"]: continue`
Skipped(campaign, filter) == filter # None /\ filter # campaign.game

\* the first campaign index k >= from the loop does not skip, or 0
NextCampaign(cs, from, filter) ==
    IF \E k \in from..Len(cs) : ~Skipped(cs[k], filter)
    THEN CHOOSE k \in from..Len(cs) :
            ~Skipped(cs[k], filter) /\ \A h \in from..(k - 1) : Skipped(cs[h], filter)
    ELSE 0

\* `if channel["user"]["stream"] and channel["user"]["broadcastSettings"]["game"]`
IsOnline(user) == user.stream /\ user.game # None

\* get_online_channels: the two filters over the response
\* (seeded fault for C7: get_online_channels without the game filter)
OnlineChannelsAnyGame(response, game_id) ==
    LET on == SelectSeq(response, IsOnline)
    IN [i \in 1..Len(on) |-> Channel(on[i])]
get_online_channels(response, game_id) ==
    LET on == SelectSeq(response, IsOnline)
        chans == [i \in 1..Len(on) |-> Channel(on[i])]
        SameGame(x) == x.game = game_id
    IN SelectSeq(chans, SameGame)

\* `[Channel(channel["node"]) for channel in response
\*      if channel["node"].get("broadcaster")]`
HasBroadcaster(node) == node.broadcaster
CategoryChannels(response) ==
    LET ok == SelectSeq(response, HasBroadcaster)
    IN [i \in 1..Len(ok) |-> Channel(ok[i])]

\* the streamers one campaign of the loop yields from its API response
StreamersOf(campaign, response) ==
    IF campaign.channelsEnabled
    THEN get_online_channels(response, campaign.game)
    ELSE CategoryChannels(response)

\* pick_streamer: `return streamers[0]`
\* (seeded fault for C8: the last streamer instead of the first)
PickedLast(streamers) == streamers[Len(streamers)]
Picked(streamers) == streamers[1]

\* the channel ids in the platform's listing order
AllChannels == <<"c1", "c2">>

(***************************************************************************)
(* State.                                                                  *)
(***************************************************************************)
VARIABLES
    srv,                \* the platform: inventory, campaigns, channels
    game,               \* self.game, the configured game filter
    need_mine,          \* self.need_mine
    current_channel,    \* self.current_channel
    current_game,       \* self.current_game
    inventory,          \* self.inventory
    claimed_drops_ids,  \* self.claimed_drops_ids
    campaigns,          \* self.campaigns
    pc,                 \* the awaited call the main task (run) is suspended in
    campaigns_ids,      \* update_campaigns: campaigns_ids
    claimAt,            \* claim_all_drops: index in InventoryDrops of the drop being claimed
    selAt,              \* get_channel_to_mine: index of the campaign being queried
    streamer,           \* run: streamer
    lpc,                \* the listener task (handle_websocket)
    data,               \* handle_websocket: data
    subscribed,         \* the event stream's per-channel topic
    claimCalls,         \* history: instance ids claim_drop was called with in this pass
    claimFailed,        \* history: a claim_drop call of this pass raised
    snapshot,           \* history: the get_inventory() response of this pass
    reconciled,         \* history: self.campaigns as update_campaigns left it
    prevReconciled,     \* history: the same, one pass earlier
    watchEnd,           \* history: how the last watch attempt of run ended
    sent,               \* history: the last watch attempt called send_watch
    backoff,            \* history: pick_streamer has slept 60 in this pass
    prevEnd             \* history: how the watch attempt before the last one ended

vars == <<srv, game, need_mine, current_channel, current_game, inventory,
          claimed_drops_ids, campaigns, pc, campaigns_ids, claimAt, selAt,
          streamer, lpc, data, subscribed, claimCalls, claimFailed, snapshot,
          reconciled, prevReconciled, watchEnd, sent, backoff, prevEnd>>

(***************************************************************************)
(* PlatformAPI: the responses the platform gives in state srv.             *)
(***************************************************************************)
api_get_inventory == srv.inventory

api_get_campaigns == srv.campaigns

api_get_full_campaigns_data(ids) ==
    [i \in 1..Len(ids) |->
        LET k == CHOOSE k \in 1..Len(srv.campaigns) : srv.campaigns[k].id_ = ids[i]
        IN srv.campaigns[k]]

api_get_channels_information(channels) ==
    [i \in 1..Len(channels) |-> srv.channels[channels[i]]]

\* the channels live in the category, in id order
RECURSIVE LiveIn(_, _)
LiveIn(g, i) ==
    IF i > Len(AllChannels) THEN <<>>
    ELSE (IF srv.channels[AllChannels[i]].stream /\ srv.channels[AllChannels[i]].game = g
          THEN <<srv.channels[AllChannels[i]]>> ELSE <<>>) \o LiveIn(g, i + 1)
api_get_category_streamers(slug) == LiveIn(slug, 1)

\* the response get_channel_to_mine awaits for one campaign
QueryResponse(campaign) ==
    IF campaign.channelsEnabled
    THEN api_get_channels_information(campaign.channels)
    ELSE api_get_category_streamers(campaign.game)

(***************************************************************************)
(* The main task.  M is the part of the state the main task writes, as a   *)
(* record; each step below maps it to its next value.                      *)
(***************************************************************************)
M == [pc |-> pc, need_mine |-> need_mine, current_channel |-> current_channel,
      current_game |-> current_game, inventory |-> inventory,
      claimed_drops_ids |-> claimed_drops_ids, campaigns |-> campaigns,
      campaigns_ids |-> campaigns_ids, claimAt |-> claimAt, selAt |-> selAt,
      streamer |-> streamer, subscribed |-> subscribed,
      claimCalls |-> claimCalls, claimFailed |-> claimFailed,
      snapshot |-> snapshot, reconciled |-> reconciled,
      prevReconciled |-> prevReconciled, watchEnd |-> watchEnd, sent |-> sent,
      backoff |-> backoff, prevEnd |-> prevEnd]

Becomes(m) ==
    /\ pc' = m.pc
    /\ need_mine' = m.need_mine
    /\ current_channel' = m.current_channel
    /\ current_game' = m.current_game
    /\ inventory' = m.inventory
    /\ claimed_drops_ids' = m.claimed_drops_ids
    /\ campaigns' = m.campaigns
    /\ campaigns_ids' = m.campaigns_ids
    /\ claimAt' = m.claimAt
    /\ selAt' = m.selAt
    /\ streamer' = m.streamer
    /\ subscribed' = m.subscribed
    /\ claimCalls' = m.claimCalls
    /\ claimFailed' = m.claimFailed
    /\ snapshot' = m.snapshot
    /\ reconciled' = m.reconciled
    /\ prevReconciled' = m.prevReconciled
    /\ watchEnd' = m.watchEnd
    /\ sent' = m.sent
    /\ backoff' = m.backoff
    /\ prevEnd' = m.prevEnd

NoPass == [done |-> FALSE, campaigns |-> <<>>]
NoSnapshot == [dropCampaignsInProgress |-> <<>>, gameEventDrops |-> <<>>]

\* run, the outer `finally`: `await self.websocket.close()`; run() is over
Exit(m) == [m EXCEPT !.pc = "exited"]

\* run, the inner `finally`: `self.current_channel = None`
\* (seeded fault for C19: the channel is not released)
ReleaseKeepsChannel(m) == m
Release(m) == [m EXCEPT !.current_channel = NoChannel]

\* run, the top of `while True`: `self.current_game = None`, then
\* pick_streamer up to its first await, update_inventory's get_inventory()
\* (seeded fault for C17: the loop top records the last streamer's game)
LoopTopObservesGame(m) ==
    [m EXCEPT !.current_game = m.streamer.game, !.pc = "get_inventory",
              !.streamer = NoChannel, !.claimCalls = <<>>, !.claimFailed = FALSE,
              !.campaigns_ids = <<>>, !.claimAt = 0, !.selAt = 0,
              !.backoff = FALSE]
\* (seeded fault for C20: the observed game is not cleared)
LoopTopKeepsGame(m) ==
    [m EXCEPT !.pc = "get_inventory",
              !.streamer = NoChannel, !.claimCalls = <<>>, !.claimFailed = FALSE,
              !.campaigns_ids = <<>>, !.claimAt = 0, !.selAt = 0,
              !.backoff = FALSE]
LoopTop(m) ==
    [m EXCEPT !.current_game = None, !.pc = "get_inventory",
              !.streamer = NoChannel, !.claimCalls = <<>>, !.claimFailed = FALSE,
              !.campaigns_ids = <<>>, !.claimAt = 0, !.selAt = 0,
              !.backoff = FALSE]

\* watch, the head of `while self.need_mine` and what follows up to the next
\* await: the normal end (`self.need_mine = True`, then run awaits
\* switch_channel_topic), the RuntimeError that run catches (`continue`,
\* through the inner finally), or the call of send_watch
\* (seeded fault for C5: the loop condition left out)
WatchHeadIgnoresFlag(m) ==
    IF m.current_game # None /\ m.current_game # m.current_channel.game
    THEN LoopTop(Release([m EXCEPT !.watchEnd = "game_changed"]))
    ELSE [m EXCEPT !.pc = "send_watch", !.sent = TRUE]
\* (seeded fault for C6: the game comparison left out)
WatchHeadNoGameCheck(m) ==
    IF ~m.need_mine
    THEN [m EXCEPT !.need_mine = TRUE, !.pc = "switch_channel_topic",
                   !.watchEnd = "mined"]
    ELSE [m EXCEPT !.pc = "send_watch", !.sent = TRUE]
\* (seeded fault for C11: the flag is not set back when the loop ends)
WatchHeadKeepsFlag(m) ==
    IF ~m.need_mine
    THEN [m EXCEPT !.pc = "switch_channel_topic", !.watchEnd = "mined"]
    ELSE IF m.current_game # None /\ m.current_game # m.current_channel.game
    THEN LoopTop(Release([m EXCEPT !.watchEnd = "game_changed"]))
    ELSE [m EXCEPT !.pc = "send_watch", !.sent = TRUE]
WatchHead(m) ==
    IF ~m.need_mine
    THEN [m EXCEPT !.need_mine = TRUE, !.pc = "switch_channel_topic",
                   !.watchEnd = "mined"]
    ELSE IF m.current_game # None /\ m.current_game # m.current_channel.game
    THEN LoopTop(Release([m EXCEPT !.watchEnd = "game_changed"]))
    ELSE [m EXCEPT !.pc = "send_watch", !.sent = TRUE]

\* run: `self.current_channel = streamer`, `await self.watch(streamer)`
StartWatch(m, s) ==
    WatchHead([m EXCEPT !.streamer = s, !.current_channel = s,
                        !.prevEnd = m.watchEnd,
                        !.watchEnd = "none", !.sent = FALSE])

\* get_channel_to_mine, the `for` loop from campaign index `from` to its next
\* await; when the loop runs out pick_streamer sleeps 60
\* (seeded fault for C12: a none-found result ends run)
SelectFromGivesUp(m, from) ==
    LET k == NextCampaign(m.campaigns, from, game)
    IN IF k = 0 THEN Exit(m)
       ELSE [m EXCEPT !.pc = "query_channels", !.selAt = k]
SelectFrom(m, from) ==
    LET k == NextCampaign(m.campaigns, from, game)
    IN IF k = 0 THEN [m EXCEPT !.pc = "sleep60", !.selAt = 0, !.backoff = TRUE]
       ELSE [m EXCEPT !.pc = "query_channels", !.selAt = k]

\* pick_streamer: `self.campaigns = sort_campaigns(self.campaigns)`, then the
\* first call of get_channel_to_mine
AfterClaims(m) ==
    SelectFrom([m EXCEPT !.campaigns = sort_campaigns(m.campaigns), !.claimAt = 0], 1)

\* `for campaign in self.inventory`: the list the claim pass walks
\* (a variant that walks the reconciled campaigns instead)
ClaimSourceReconciled(m) == m.campaigns
ClaimSource(m) == m.inventory

\* claim_all_drops, the loops from drop index `from` to the next claim_drop()
ClaimFrom(m, from) ==
    LET drops == InventoryDrops(ClaimSource(m))
        k == NextDue(drops, from)
    IN IF k = 0 THEN AfterClaims(m)
       ELSE [m EXCEPT !.pc = "claim_drop", !.claimAt = k,
                      !.claimCalls = Append(m.claimCalls, drops[k].id_)]

(***************************************************************************)
(* One action per awaited call of the main task: the call returns or       *)
(* raises, and the task runs to its next await.                            *)
(***************************************************************************)
ListenerSame == UNCHANGED <<lpc, data>>
Fixed == UNCHANGED <<srv, game>>

\* run: `await self.websocket.connect()`, create_task twice, the loop top
Connect ==
    /\ pc = "connect"
    /\ \/ /\ Becomes(LoopTop(M))
          /\ lpc' = "receive"
          /\ data' = data
       \/ /\ Becomes(Exit(M))
          /\ ListenerSame
    /\ Fixed

\* update_inventory after `await self.api.get_inventory()`, then
\* update_campaigns up to `await self.api.get_campaigns()`
GetInventory ==
    /\ pc = "get_inventory"
    /\ \/ LET response == api_get_inventory
              inv == InventoryOf(response)
          IN Becomes([M EXCEPT !.inventory = inv,
                               !.claimed_drops_ids = ClaimedDropsIds(inv, response),
                               !.snapshot = response,
                               !.pc = "get_campaigns"])
       \/ Becomes(Exit(M))
    /\ ListenerSame /\ Fixed

\* update_campaigns after get_campaigns(), up to get_full_campaigns_data()
GetCampaigns ==
    /\ pc = "get_campaigns"
    /\ \/ Becomes([M EXCEPT !.campaigns_ids = CampaignsIds(api_get_campaigns),
                            !.pc = "get_full_campaigns_data"])
       \/ Becomes(Exit(M))
    /\ ListenerSame /\ Fixed

\* the rest of update_campaigns, then claim_all_drops to its first claim_drop()
\* (or, with nothing due, on through the sort to the selector's first query)
GetFullCampaignsData ==
    /\ pc = "get_full_campaigns_data"
    /\ \/ LET response == api_get_full_campaigns_data(campaigns_ids)
              result == UpdateCampaigns(campaigns, response, claimed_drops_ids)
          IN Becomes(ClaimFrom([M EXCEPT !.campaigns = result,
                                         !.prevReconciled = reconciled,
                                         !.reconciled = [done |-> TRUE,
                                                         campaigns |-> result]], 1))
       \/ Becomes(Exit(M))
    /\ ListenerSame /\ Fixed

\* claim_all_drops after one `await self.api.claim_drop(...)`: on to the next
\* due drop; an exception leaves claim_all_drops, pick_streamer and run
ClaimDrop ==
    /\ pc = "claim_drop"
    /\ \/ Becomes(ClaimFrom(M, claimAt + 1))
       \/ Becomes(Exit([M EXCEPT !.claimFailed = TRUE]))
    /\ ListenerSame /\ Fixed

\* get_channel_to_mine after the API call for campaign selAt: break and
\* return, pick_streamer returns streamers[0] and run starts the watch; or
\* the loop goes on
AfterQuery(m) ==
    LET campaign == m.campaigns[m.selAt]
        streamers == StreamersOf(campaign, QueryResponse(campaign))
    IN IF streamers # <<>>
       THEN StartWatch(m, Picked(streamers))
       ELSE SelectFrom(m, m.selAt + 1)

QueryChannels ==
    /\ pc = "query_channels"
    /\ \/ Becomes(AfterQuery(M))
       \/ Becomes(Exit(M))
    /\ ListenerSame /\ Fixed

\* pick_streamer: `await asyncio.sleep(60)` is over, get_channel_to_mine again
Sleep60 ==
    /\ pc = "sleep60"
    /\ Becomes(SelectFrom(M, 1))
    /\ ListenerSame /\ Fixed

\* run, `except RuntimeError` / `except ServerDisconnectedError`: log,
\* `continue` through the inner finally to the top of the loop
\* (seeded fault for C13: the error is not caught and leaves run)
RecoverPropagates(m) == Exit(Release([m EXCEPT !.watchEnd = "disconnected"]))
Recover(m) == LoopTop(Release([m EXCEPT !.watchEnd = "disconnected"]))

\* watch after `await self.api.send_watch(...)`: into the sleep; a
\* RuntimeError or ServerDisconnectedError is caught by run (`continue`
\* through the inner finally); anything else leaves run
SendWatch ==
    /\ pc = "send_watch"
    /\ \/ Becomes([M EXCEPT !.pc = "sleep15"])
       \/ Becomes(Recover(M))
       \/ Becomes(Exit(Release([M EXCEPT !.watchEnd = "raised"])))
    /\ ListenerSame /\ Fixed

\* watch: `await asyncio.sleep(15)` is over, back to the head of the loop
Sleep15 ==
    /\ pc = "sleep15"
    /\ Becomes(WatchHead(M))
    /\ ListenerSame /\ Fixed

\* run after `await self.websocket.switch_channel_topic(streamer.id)`:
\* the inner finally and the next pass; or an exception, as for send_watch
SwitchChannelTopic ==
    /\ pc = "switch_channel_topic"
    /\ \/ Becomes(LoopTop(Release([M EXCEPT !.subscribed = streamer.id])))
       \/ Becomes(Recover(M))
       \/ Becomes(Exit(Release([M EXCEPT !.watchEnd = "raised"])))
    /\ ListenerSame /\ Fixed

(***************************************************************************)
(* The listener task, handle_websocket.  A message is what                 *)
(* receive_message() returns: `data`, with json.loads(data["message"]) as  *)
(* its type, notification and game_id.                                     *)
(*   topic "none":      data is falsy or has no "message"                  *)
(*   topic "malformed": data["message"] is not JSON                        *)
(*   topic "onsite":    onsite-notifications.<user_id>                     *)
(*   topic "drops":     user-drop-events.<user_id>                         *)
(*   topic "broadcast": broadcast-settings-update.<channel>                *)
(***************************************************************************)
Msg(topic, channel, type, notification, game_id) ==
    [topic |-> topic, channel |-> channel, type |-> type,
     notification |-> notification, game_id |-> game_id]

Unbound == Msg("unbound", None, "", "", None)

Messages ==
    {Msg("none", None, "", "", None),
     Msg("malformed", None, "", "", None),
     Msg("drops", None, "drop-progress", "", None),
     Msg("onsite", None, "create-notification",
         "user_drop_reward_reminder_notification", None),
     Msg("onsite", None, "create-notification", "other", None),
     Msg("onsite", None, "other", "", None)}
    \cup {Msg("broadcast", c, "broadcast_settings_update", "", g) :
            c \in ChannelIds, g \in Games \cup {None}}

\* `f"broadcast-settings-update.{self.current_channel}"` equals the topic
TopicIsCurrentChannel(msg) ==
    current_channel # NoChannel /\ msg.channel = current_channel.id

\* the body of the `while True` after `data` is bound to msg: the listener's
\* next position and the two fields it writes
Handle(msg) ==
    IF msg.topic = "none"
    THEN [lpc |-> "receive", need_mine |-> need_mine, current_game |-> current_game]
    ELSE IF msg.topic = "malformed"
    THEN [lpc |-> "raised", need_mine |-> need_mine, current_game |-> current_game]
    ELSE IF msg.topic = "onsite" /\ msg.type = "create-notification"
    THEN [lpc |-> "returned",
          need_mine |-> IF msg.notification = "user_drop_reward_reminder_notification"
                        THEN FALSE ELSE need_mine,
          current_game |-> current_game]
    ELSE IF /\ msg.topic = "broadcast"
            /\ TopicIsCurrentChannel(msg)
            /\ msg.type = "broadcast_settings_update"
    THEN [lpc |-> "receive", need_mine |-> need_mine, current_game |-> msg.game_id]
    ELSE [lpc |-> "receive", need_mine |-> need_mine, current_game |-> current_game]

MainSame ==
    UNCHANGED <<current_channel, inventory, claimed_drops_ids, campaigns, pc,
                campaigns_ids, claimAt, selAt, streamer, subscribed, claimCalls,
                claimFailed, snapshot, reconciled, prevReconciled, watchEnd,
                sent, backoff, prevEnd>>

\* `data = await self.websocket.receive_message()` returns msg
Receive ==
    /\ lpc = "receive"
    /\ pc # "exited"
    /\ \E msg \in Messages :
        LET h == Handle(msg)
        IN /\ lpc' = h.lpc
           /\ need_mine' = h.need_mine
           /\ current_game' = h.current_game
           /\ data' = IF h.lpc = "receive" THEN msg ELSE Unbound
    /\ MainSame /\ Fixed

\* receive_message() raises: `self.websocket.connect()` is not awaited, and
\* the body runs with the `data` of the previous iteration; with no previous
\* iteration `data` is unbound and the task ends with UnboundLocalError
ReceiveRaises ==
    /\ lpc = "receive"
    /\ pc # "exited"
    /\ IF data = Unbound
       THEN /\ lpc' = "raised"
            /\ UNCHANGED <<need_mine, current_game, data>>
       ELSE LET h == Handle(data)
            IN /\ lpc' = h.lpc
               /\ need_mine' = h.need_mine
               /\ current_game' = h.current_game
               /\ data' = data
    /\ MainSame /\ Fixed

(***************************************************************************)
(* Inputs: the platform states and filters the runs start from.            *)
(***************************************************************************)
\* the benefit id lists of a drop
BenefitLists == {<<"b1">>, <<"b2">>, <<"b1", "b2">>}

DropShapes(lists) ==
    [benefits_ids : lists, required_time : 1..MaxTime,
     watched_time : 0..MaxTime, claimed : BOOLEAN]

\* drop j of campaign c gets id_ 10 * c + j
WithIds(c, shapes) ==
    [j \in 1..Len(shapes) |->
        [id_ |-> 10 * c + j, benefits_ids |-> shapes[j].benefits_ids,
         required_time |-> shapes[j].required_time,
         watched_time |-> shapes[j].watched_time, claimed |-> shapes[j].claimed]]

InProgress(c, shapes) ==
    [id_ |-> c, game |-> "g1", channelsEnabled |-> FALSE, channels |-> <<>>,
     drops |-> WithIds(c, shapes)]

\* snapshots with at most one in-progress campaign of 1..n drops
Snapshots(lists, n, e) ==
    {[dropCampaignsInProgress |-> p, gameEventDrops |-> ev] :
        p \in {<<>>} \cup {<<InProgress(9, sh)>> :
                    sh \in SeqsUpTo(DropShapes(lists), n) \ {<<>>}},
        ev \in SeqsUpTo(Benefits, e)}

\* a listed campaign: its drops carry no progress of the user
Listed(c, status, g, enabled, lists) ==
    [id_ |-> c, status |-> status, game |-> g, channelsEnabled |-> enabled,
     channels |-> IF enabled THEN AllChannels ELSE <<>>,
     drops |-> WithIds(c, [j \in 1..Len(lists) |->
                    [benefits_ids |-> lists[j], required_time |-> 1,
                     watched_time |-> 0, claimed |-> FALSE]])]

ChannelStates(streams, games, broadcasters) ==
    {f \in [ChannelIds -> [id : ChannelIds, stream : streams, game : games,
                           broadcaster : broadcasters]] :
        \A c \in ChannelIds : f[c].id = c}

\* lists of 0..n campaigns; the campaign at position i has id_ i, or, with
\* desc, the ids run the other way (the platform lists in any order)
CampaignLists(n, statuses, games, enableds, dropLists, orders) ==
    UNION {
        {[i \in 1..k |-> Listed(IF desc THEN k + 1 - i ELSE i, st[i], gm[i],
                                en[i], dl[i])] :
            st \in [1..k -> statuses], gm \in [1..k -> games],
            en \in [1..k -> enableds], dl \in [1..k -> dropLists],
            desc \in IF k > 1 THEN orders ELSE {FALSE}}
        : k \in 0..n}

Servers(snapshots, campaignLists, channelStates) ==
    [inventory : snapshots, campaigns : campaignLists, channels : channelStates]

InitFrom(servers, filters) ==
    /\ srv \in servers
    /\ game \in filters
    /\ need_mine = TRUE
    /\ current_channel = NoChannel
    /\ current_game = None
    /\ inventory = <<>>
    /\ claimed_drops_ids = <<>>
    /\ campaigns = <<>>
    /\ pc = "connect"
    /\ campaigns_ids = <<>>
    /\ claimAt = 0
    /\ selAt = 0
    /\ streamer = NoChannel
    /\ lpc = "idle"
    /\ data = Unbound
    /\ subscribed = None
    /\ claimCalls = <<>>
    /\ claimFailed = FALSE
    /\ snapshot = NoSnapshot
    /\ reconciled = NoPass
    /\ prevReconciled = NoPass
    /\ watchEnd = "none"
    /\ sent = FALSE
    /\ backoff = FALSE
    /\ prevEnd = "none"

(***************************************************************************)
(* Spec: the whole program, the main task and the listener interleaved at  *)
(* the awaits, from a small set of platform states: one in-progress drop   *)
(* of benefit b1 in any state, at most one listed campaign, channels live  *)
(* or offline.                                                             *)
(***************************************************************************)
RunServers ==
    Servers(Snapshots({<<"b1">>}, 1, 0),
            CampaignLists(1, {"ACTIVE"}, {"g1"}, BOOLEAN,
                          {<<<<"b1">>>>, <<<<"b1">>, <<"b2">>>>}, {FALSE}),
            ChannelStates(BOOLEAN, {"g1"}, {TRUE}))

Init == InitFrom(RunServers, {None})

Next ==
    \/ Connect
    \/ GetInventory
    \/ GetCampaigns
    \/ GetFullCampaignsData
    \/ ClaimDrop
    \/ QueryChannels
    \/ Sleep60
    \/ SendWatch
    \/ Sleep15
    \/ SwitchChannelTopic
    \/ Receive
    \/ ReceiveRaises

Spec == Init /\ [][Next]_vars

(***************************************************************************)
(* SpecReconcile: update_inventory and update_campaigns over wide inputs:  *)
(* every snapshot with at most one in-progress drop and one game event     *)
(* drop, the lists of ReconcileCampaigns with up to MaxDrops drops each.   *)
(***************************************************************************)
DropLists == SeqsUpTo(BenefitLists, MaxDrops) \ {<<>>}

\* lists of up to two campaigns, active or not; of two campaigns at least one
\* has a single drop
ReconcileCampaigns ==
    LET statuses == {"ACTIVE", "EXPIRED"}
        pairs == {p \in DropLists \X DropLists : Len(p[1]) = 1 \/ Len(p[2]) = 1}
    IN  {<<>>}
        \cup {<<Listed(1, st, "g1", FALSE, dl)>> :
                    st \in statuses, dl \in DropLists}
        \cup {<<Listed(1, st[1], "g1", FALSE, p[1]),
                Listed(2, st[2], "g1", FALSE, p[2])>> :
                    st \in [1..2 -> statuses], p \in pairs}

ReconcileServers ==
    Servers(Snapshots(BenefitLists, 1, 1), ReconcileCampaigns,
            ChannelStates({FALSE}, {"g1"}, {TRUE}))

InitReconcile == InitFrom(ReconcileServers, {None})

NextReconcile ==
    \/ Connect
    \/ GetInventory
    \/ GetCampaigns
    \/ GetFullCampaignsData

SpecReconcile == InitReconcile /\ [][NextReconcile]_vars

(***************************************************************************)
(* SpecClaim: the claim pass over wide inventories: an in-progress         *)
(* campaign of up to MaxInvDrops drops in every state of progress, alone   *)
(* or followed by a second campaign of one drop, each claim_drop() call    *)
(* returning or raising.                                                   *)
(***************************************************************************)
ClaimSnapshots ==
    LET shapes == SeqsUpTo(DropShapes({<<"b1">>}), MaxInvDrops) \ {<<>>}
        single == SeqsUpTo(DropShapes({<<"b1">>}), 1) \ {<<>>}
    IN {[dropCampaignsInProgress |-> p, gameEventDrops |-> <<>>] :
            p \in {<<>>} \cup {<<InProgress(8, a)>> : a \in shapes}
                  \cup {<<InProgress(8, a), InProgress(9, b)>> :
                            a \in shapes, b \in single}}

ClaimServers ==
    Servers(ClaimSnapshots,
            CampaignLists(1, {"ACTIVE"}, {"g1"}, {FALSE}, {<<<<"b1">>, <<"b2">>>>},
                          {FALSE}),
            ChannelStates({FALSE}, {"g1"}, {TRUE}))

InitClaim == InitFrom(ClaimServers, {None})

NextClaim ==
    \/ Connect
    \/ GetInventory
    \/ GetCampaigns
    \/ GetFullCampaignsData
    \/ ClaimDrop

SpecClaim == InitClaim /\ [][NextClaim]_vars

(***************************************************************************)
(* SpecSelect: the channel selector over wide inputs: every list of up to  *)
(* MaxCampaigns campaigns over two games, with and without an allow-list,  *)
(* every state of the two channels, every setting of the game filter.      *)
(***************************************************************************)
SelectServers ==
    Servers({NoSnapshot},
            CampaignLists(MaxCampaigns, {"ACTIVE"}, Games, BOOLEAN, {<<<<"b1">>>>},
                          BOOLEAN),
            ChannelStates(BOOLEAN, Games \cup {None}, BOOLEAN))

InitSelect == InitFrom(SelectServers, Games \cup {None})

NextSelect ==
    \/ Connect
    \/ GetInventory
    \/ GetCampaigns
    \/ GetFullCampaignsData
    \/ QueryChannels
    \/ Sleep60

SpecSelect == InitSelect /\ [][NextSelect]_vars

(***************************************************************************)
(* SpecLive: the selector's retry loop while the platform changes: the     *)
(* selector's API calls return, offline channels go live, and the run      *)
(* stops at the first send_watch.  An awaited sleep(60) ends and an        *)
(* awaited API call that returns is resumed: the event loop runs every     *)
(* task that is ready.                                                     *)
(***************************************************************************)
\* the platform: a channel that was offline starts streaming
GoLive ==
    /\ \E c \in ChannelIds :
        /\ ~srv.channels[c].stream
        /\ srv' = [srv EXCEPT !.channels[c].stream = TRUE]
    /\ UNCHANGED <<game, need_mine, current_game, lpc, data>>
    /\ MainSame

\* get_channel_to_mine after an API call that returns
QueryChannelsReturns ==
    /\ pc = "query_channels"
    /\ Becomes(AfterQuery(M))
    /\ ListenerSame /\ Fixed

LiveServers ==
    Servers({NoSnapshot},
            CampaignLists(2, {"ACTIVE"}, Games, BOOLEAN, {<<<<"b1">>>>}, {FALSE}),
            ChannelStates(BOOLEAN, Games, {TRUE}))

InitLive == InitFrom(LiveServers, {None})

NextLive ==
    \/ Connect
    \/ GetInventory
    \/ GetCampaigns
    \/ GetFullCampaignsData
    \/ QueryChannelsReturns
    \/ Sleep60
    \/ GoLive

SpecLive ==
    InitLive /\ [][NextLive]_vars
        /\ WF_vars(QueryChannelsReturns) /\ WF_vars(Sleep60)

(***************************************************************************)
(* Properties of the reconcile pass, stated over the platform state (srv), *)
(* the snapshot the pass fetched and the campaign list it left.            *)
(***************************************************************************)
\* the drops of a snapshot's in-progress campaigns
SnapshotDrops(snap) ==
    UNION {Range(snap.dropCampaignsInProgress[i].drops) :
            i \in 1..Len(snap.dropCampaignsInProgress)}

\* the satisfied-benefit set of a snapshot: the benefit ids of its drops that
\* are claimed or watched to their threshold, and its game event drops' ids
SatisfiedBenefits(snap) ==
    {b \in Benefits :
        \/ \E d \in SnapshotDrops(snap) :
            /\ d.claimed \/ d.watched_time >= d.required_time
            /\ b \in Range(d.benefits_ids)
        \/ b \in Range(snap.gameEventDrops)}

\* the campaigns the platform lists as active, and their drops
ActiveCampaigns == {c \in Range(srv.campaigns) : c.status = "ACTIVE"}
ActiveDrops == UNION {Range(c.drops) : c \in ActiveCampaigns}

\* drop d is not in the reconciled campaign set
Excluded(d) ==
    ~\E i \in 1..Len(reconciled.campaigns) :
        \E j \in 1..Len(reconciled.campaigns[i].drops) :
            reconciled.campaigns[i].drops[j].id_ = d.id_

HitsSatisfied(d) == Range(d.benefits_ids) \cap SatisfiedBenefits(snapshot) # {}

\* a reconcile pass has run on `snapshot`
PassDone == reconciled.done /\ pc \notin {"get_campaigns", "get_full_campaigns_data"}

\* C1: after a reconcile pass, a drop of an active campaign is excluded from
\* the reconciled campaign set if and only if at least one of its benefit
\* ids is in the satisfied-benefit set of the pass's snapshot.
C1_ExcludedIffSatisfied ==
    PassDone => \A d \in ActiveDrops : Excluded(d) <=> HitsSatisfied(d)

\* C1's case: a pass that excluded one drop for a benefit satisfied by a
\* watched-out drop or a game event drop, and kept another
C1_Witness ==
    /\ PassDone
    /\ \E d \in ActiveDrops : Excluded(d) /\ HitsSatisfied(d)
    /\ \E d \in ActiveDrops : ~Excluded(d)
    /\ \/ snapshot.gameEventDrops # <<>>
       \/ \E d \in SnapshotDrops(snapshot) :
            ~d.claimed /\ d.watched_time >= d.required_time

\* C2 as stated: a drop is removed only when all of its benefit ids are in
\* the satisfied-benefit set.
C2_RemovedOnlyIfAllSatisfied ==
    PassDone =>
        \A d \in ActiveDrops :
            Excluded(d) => Range(d.benefits_ids) \subseteq SatisfiedBenefits(snapshot)

\* C2, amended: a drop is removed only when at least one of its benefit ids
\* is in the satisfied-benefit set; a drop none of whose benefit ids is in
\* the satisfied set stays in the reconciled campaign set.
C2_RemovedOnlyIfSomeSatisfied ==
    PassDone => \A d \in ActiveDrops : ~HitsSatisfied(d) => ~Excluded(d)

\* C2's case: a pass that removed a drop and kept a drop with no satisfied
\* benefit, in the same campaign
C2_Witness ==
    /\ PassDone
    /\ \E c \in ActiveCampaigns :
        /\ \E d \in Range(c.drops) : Excluded(d)
        /\ \E d \in Range(c.drops) : ~HitsSatisfied(d) /\ ~Excluded(d)

\* the drops of listed campaign c that the satisfied set does not touch, in
\* their original order
KeptDrops(c) ==
    LET Untouched(d) == ~HitsSatisfied(d)
    IN SelectSeq(c.drops, Untouched)

\* the active campaigns that keep a drop, in listing order, cut to those drops
ExpectedCampaigns ==
    LET Stays(c) == c.status = "ACTIVE" /\ KeptDrops(c) # <<>>
        staying == SelectSeq(srv.campaigns, Stays)
    IN [i \in 1..Len(staying) |->
            [Campaign(staying[i]) EXCEPT !.drops = KeptDrops(staying[i])]]

\* C10: after reconciliation no campaign of the result has zero drops, and
\* the result is exactly the active campaigns that keep a non-excluded drop,
\* each with exactly its non-excluded drops in their original order.
C10_NoEmptyCampaignKeptInOrder ==
    PassDone =>
        /\ \A i \in 1..Len(reconciled.campaigns) :
            reconciled.campaigns[i].drops # <<>>
        /\ reconciled.campaigns = ExpectedCampaigns

\* C10's case, the scenario: one campaign with drops of benefit ids [b1] and
\* [b2], b1 reported claimed; the campaign is retained with only the b2 drop
C10_Witness ==
    /\ PassDone
    /\ Len(srv.campaigns) = 1
    /\ srv.campaigns[1].status = "ACTIVE"
    /\ Len(srv.campaigns[1].drops) = 2
    /\ srv.campaigns[1].drops[1].benefits_ids = <<"b1">>
    /\ srv.campaigns[1].drops[2].benefits_ids = <<"b2">>
    /\ \E d \in SnapshotDrops(snapshot) : d.claimed /\ d.benefits_ids = <<"b1">>
    /\ snapshot.gameEventDrops = <<>>
    /\ Len(reconciled.campaigns) = 1
    /\ reconciled.campaigns[1].drops = <<srv.campaigns[1].drops[2]>>

(***************************************************************************)
(* Properties of the claim pass.                                           *)
(***************************************************************************)
\* the drops of the raw snapshot, campaign by campaign
RawDrops == Flatten([i \in 1..Len(snapshot.dropCampaignsInProgress) |->
                        snapshot.dropCampaignsInProgress[i].drops])

\* a drop the claim pass owes a call: watched to its threshold, not claimed
OwedClaim(d) == d.watched_time >= d.required_time /\ d.claimed = FALSE

\* the instance ids of the owed drops among the first n raw drops, in order
OwedIds(n) ==
    LET owed == SelectSeq(SubSeq(RawDrops, 1, n), OwedClaim)
    IN [k \in 1..Len(owed) |-> owed[k].id_]

\* the main task is past claim_all_drops in the current pass
ClaimPassOver ==
    pc \in {"query_channels", "sleep60", "send_watch", "sleep15",
            "switch_channel_topic"}

\* C3: in one claim pass claim_drop is called exactly once for each drop of
\* the raw snapshot with watched_time >= required_time and claimed == false,
\* in snapshot order, and for no other drop: while the pass is at drop
\* claimAt the calls made are those owed among the first claimAt raw drops,
\* and when the pass is over they are those owed among all raw drops.
C3_OneClaimPerDueDrop ==
    /\ pc = "claim_drop" => claimCalls = OwedIds(claimAt)
    /\ ClaimPassOver => claimCalls = OwedIds(Len(RawDrops))
    /\ (pc = "exited" /\ claimFailed) => claimCalls = OwedIds(claimAt)

\* C3's case: a finished pass that made two calls and passed over a drop
\* that was already claimed or below its threshold, with the reconciled
\* campaigns differing from the raw inventory
C3_Witness ==
    /\ ClaimPassOver
    /\ Len(claimCalls) = 2
    /\ \E k \in 1..Len(RawDrops) :
        /\ RawDrops[k].id_ \notin Range(claimCalls)
        /\ \/ RawDrops[k].claimed
           \/ RawDrops[k].watched_time < RawDrops[k].required_time
    /\ campaigns # inventory

\* C4 as stated: a failing claim_drop call does not block the rest of the
\* batch; every owed drop of the snapshot still gets its claim call.
C4_FailedClaimDoesNotBlock ==
    (claimFailed /\ pc = "exited") =>
        \A k \in 1..Len(RawDrops) :
            OwedClaim(RawDrops[k]) => RawDrops[k].id_ \in Range(claimCalls)

(***************************************************************************)
(* Properties of the channel selector.                                     *)
(***************************************************************************)
\* a streamer has been picked for campaign selAt of self.campaigns
Selected == streamer # NoChannel /\ selAt \in 1..Len(campaigns)

\* the channels of campaign c that may be watched, in the order the
\* platform lists them: with an allow-list, its channels that are live and
\* broadcast the campaign's game; without, the live streamers of the game's
\* category that carry a broadcaster record
EligibleChannels(c) ==
    LET Allowed(id) == /\ srv.channels[id].stream
                       /\ srv.channels[id].game = c.game
        Discovered(id) == /\ srv.channels[id].stream
                          /\ srv.channels[id].game = c.game
                          /\ srv.channels[id].broadcaster
    IN IF c.channelsEnabled THEN SelectSeq(c.channels, Allowed)
       ELSE SelectSeq(AllChannels, Discovered)

PassesFilter(c) == game = None \/ game = c.game

\* C7: with channelsEnabled true, the selected channel is live, has a
\* broadcast game, and broadcasts the game of the campaign it was selected
\* for.
C7_AllowListChannelLiveSameGame ==
    (Selected /\ campaigns[selAt].channelsEnabled) =>
        /\ srv.channels[streamer.id].stream
        /\ srv.channels[streamer.id].game # None
        /\ srv.channels[streamer.id].game = campaigns[selAt].game

\* C7's case: an allow-list campaign selected its second channel because the
\* first is offline, has no game, or broadcasts another game
C7_Witness ==
    /\ Selected
    /\ campaigns[selAt].channelsEnabled
    /\ streamer.id = "c2"
    /\ srv.channels["c1"].stream
    /\ srv.channels["c1"].game \notin {None, campaigns[selAt].game}

\* C8: the selected channel is the first eligible channel of the first
\* campaign, in rank order, that passes the game filter and has an eligible
\* channel.
C8_FirstChannelOfFirstCampaign ==
    Selected =>
        /\ PassesFilter(campaigns[selAt])
        /\ EligibleChannels(campaigns[selAt]) # <<>>
        /\ streamer.id = EligibleChannels(campaigns[selAt])[1]
        /\ \A h \in 1..(selAt - 1) :
            PassesFilter(campaigns[h]) => EligibleChannels(campaigns[h]) = <<>>

\* C8's case, the scenario: channelsEnabled false, two live streamers c1, c2
\* listed for the top campaign's game; c1 is returned
C8_Witness ==
    /\ Selected
    /\ selAt = 1
    /\ ~campaigns[1].channelsEnabled
    /\ EligibleChannels(campaigns[1]) = <<"c1", "c2">>
    /\ streamer.id = "c1"

(***************************************************************************)
(* Properties of the watch loop.                                           *)
(***************************************************************************)
\* the main task is inside watch(): in send_watch or in the 15 s sleep
Watching == pc \in {"send_watch", "sleep15"}

\* the observed game is set and differs from the current channel's game
GameChanged ==
    /\ current_channel # NoChannel
    /\ current_game # None
    /\ current_game # current_channel.game

\* C5: once need_mine is false while the loop is watching, the loop starts no
\* new heartbeat, the flag stays false until the loop leaves, and the next
\* check of the flag, at the end of the sleep in progress, leaves the watch
\* normally (need_mine reset, on to switch_channel_topic): at most one sleep
\* is waited for after the flag became false.
C5_LeavesWatchAtNextCheck ==
    [][(Watching /\ ~need_mine) =>
        /\ (pc' = "send_watch" => pc = "send_watch")
        /\ (pc' \in {"send_watch", "sleep15"} => ~need_mine')
        /\ (pc = "sleep15" /\ pc' # "sleep15") =>
                (pc' = "switch_channel_topic" /\ need_mine' /\ watchEnd' = "mined")
      ]_vars

\* C5's case: a watch that sent a heartbeat and then ended because the flag
\* was false at a check
C5_Witness ==
    /\ pc = "switch_channel_topic"
    /\ watchEnd = "mined"
    /\ sent

\* C6 as stated: when the observed game changes during the watch, the loop
\* does not wait for the heartbeat sleep to elapse.
C6_AbortsWithoutWaiting == GameChanged => pc # "sleep15"

\* C6, amended: when the observed game id has changed to a set id different
\* from the current channel's game, the loop sends no further heartbeat, and
\* at its next check, when the sleep in progress has elapsed, it aborts the
\* watch (the channel is released and the loop is back at the reconcile
\* pass) unless need_mine is false at that check, when the watch ends
\* normally.
C6_AbortsAtNextCheck ==
    [][(Watching /\ GameChanged) =>
        /\ (pc' = "send_watch" => pc = "send_watch")
        /\ (pc = "sleep15" /\ pc' # "sleep15" /\ need_mine) =>
                /\ pc' = "get_inventory"
                /\ current_channel' = NoChannel
                /\ watchEnd' = "game_changed"
        /\ (pc = "sleep15" /\ pc' # "sleep15" /\ ~need_mine) =>
                pc' = "switch_channel_topic"
      ]_vars

\* C6's case: a watch that sent a heartbeat and was aborted for a game change
C6_Witness ==
    /\ watchEnd = "game_changed"
    /\ sent
    /\ pc = "get_inventory"
    /\ current_channel = NoChannel

(***************************************************************************)
(* Idempotence of the reconcile pass.                                      *)
(***************************************************************************)
\* C9: against an unchanged platform state (srv never changes), a reconcile
\* pass yields the same campaigns, with the same drops in the same order, as
\* the pass before it.
C9_ReconcileIdempotent ==
    prevReconciled.done => reconciled = prevReconciled

\* C9's case: a second pass over a platform state from which the pass
\* removes a drop and keeps a campaign
C9_Witness ==
    /\ prevReconciled.done
    /\ Len(reconciled.campaigns) = 1
    /\ Len(srv.campaigns[1].drops) = 2
    /\ Len(reconciled.campaigns[1].drops) = 1
    /\ claimed_drops_ids # <<>>

(***************************************************************************)
(* The phases of run's cycle, by the call the main task is suspended in.   *)
(***************************************************************************)
Selecting ==
    pc \in {"get_inventory", "get_campaigns", "get_full_campaigns_data",
            "claim_drop", "query_channels", "sleep60"}

\* the step in which run assigns current_channel and calls watch
WatchStarts == pc = "query_channels" /\ pc' \notin {"query_channels", "sleep60", "exited"}

\* the step in which watch() returns normally
WatchReturns == pc # "switch_channel_topic" /\ pc' = "switch_channel_topic"

(***************************************************************************)
(* C11: when the needs-mine flag was set to false while no heartbeat was   *)
(* pending (the miner is selecting), the watch that starts next ends at    *)
(* its first check of the flag without sending a heartbeat; the flag is    *)
(* true whenever watch() returns normally, and it is true when the watch   *)
(* session after a normally ended one starts.                              *)
(***************************************************************************)
C11_FlagResetOnReturn ==
    [][/\ (WatchStarts /\ ~need_mine) =>
            (WatchReturns /\ ~sent' /\ watchEnd' = "mined")
       /\ WatchReturns => need_mine'
       /\ (WatchStarts /\ watchEnd = "mined") => (need_mine /\ pc' = "send_watch")
      ]_vars

\* a watch has returned at its first check, no heartbeat sent, the flag true
C11_Witness ==
    /\ pc = "switch_channel_topic"
    /\ watchEnd = "mined"
    /\ ~sent
    /\ need_mine

(***************************************************************************)
(* C12: a selection that finds no channel is not fatal.  While the         *)
(* selector runs (a query or the backoff is awaited) the next step of run  *)
(* is another query, the backoff, or the start of a watch on a channel;    *)
(* run is never left from there; a watch is never entered without a       *)
(* channel; and once a campaign of the list has an eligible channel the    *)
(* watch is eventually entered.                                            *)
(***************************************************************************)
InSelector == pc \in {"query_channels", "sleep60"}

SomeEligible ==
    \E i \in 1..Len(campaigns) :
        PassesFilter(campaigns[i]) /\ EligibleChannels(campaigns[i]) # <<>>

C12_NoneFoundRetries ==
    /\ [][InSelector => pc' \in {"query_channels", "sleep60", "send_watch"}]_vars
    /\ [](pc = "send_watch" => (current_channel # NoChannel /\ streamer # NoChannel))
    /\ ((InSelector /\ SomeEligible) ~> (pc = "send_watch"))

\* a watch entered after the selector found nothing and backed off
C12_Witness ==
    /\ pc = "send_watch"
    /\ backoff
    /\ current_channel # NoChannel

(***************************************************************************)
(* C13: a ServerDisconnectedError raised while watching (by send_watch or  *)
(* by switch_channel_topic) is recovered inside the loop: the step that    *)
(* records it releases the current channel, starts the next cycle          *)
(* (pick_streamer's first call is awaited) and does not end run.           *)
(***************************************************************************)
DisconnectCaught == watchEnd # "disconnected" /\ watchEnd' = "disconnected"

C13_DisconnectRecovered ==
    [][DisconnectCaught =>
        /\ pc \in {"send_watch", "switch_channel_topic"}
        /\ current_channel # NoChannel
        /\ current_channel' = NoChannel
        /\ pc' = "get_inventory"]_vars

\* after a disconnect run is selecting again and finds a channel
C13_Witness ==
    /\ watchEnd = "disconnected"
    /\ current_channel = NoChannel
    /\ pc = "query_channels"

(***************************************************************************)
(* C14: once the event stream has connected (the listener task exists),    *)
(* run has no terminal state: it is never over.                            *)
(***************************************************************************)
Connected == lpc # "idle"

C14_NoTerminalState == Connected => pc # "exited"

(***************************************************************************)
(* C15: the listener task runs as long as run does: it never returns from  *)
(* handle_websocket while the session is on.                               *)
(***************************************************************************)
C15_ListenerNeverReturns == pc # "exited" => lpc # "returned"

(***************************************************************************)
(* C16: a receive_message() call that raises is recovered inside the       *)
(* listener: the listener awaits the next message, and neither the         *)
(* needs-mine flag nor the observed game id changes.                       *)
(***************************************************************************)
C16_FailedReceiveRecovered ==
    [][ReceiveRaises =>
        (lpc' = "receive" /\ UNCHANGED <<need_mine, current_game>>)]_vars

(***************************************************************************)
(* C17: one writer per shared field.  As stated: every change of the       *)
(* needs-mine flag or of the observed game id is a step of the listener,   *)
(* every change of the current channel or of the claimed-benefit set a     *)
(* step of the main task.                                                  *)
(***************************************************************************)
ListenerStep == Receive \/ ReceiveRaises

C17_SingleWriterPerField ==
    [][/\ (need_mine' # need_mine \/ current_game' # current_game) => ListenerStep
       /\ (current_channel' # current_channel
            \/ claimed_drops_ids' # claimed_drops_ids) => ~ListenerStep]_vars

(***************************************************************************)
(* C17, as the code has it: only the listener sets the flag to false or    *)
(* the observed game to a pushed id; the main task writes the flag only    *)
(* to set it back to true when watch() returns, and the observed game      *)
(* only to clear it at the top of a cycle; the current channel and the     *)
(* claimed-benefit set are written by the main task alone.                 *)
(***************************************************************************)
C17_WritersPerField ==
    [][/\ (need_mine' # need_mine /\ ~need_mine') => ListenerStep
       /\ (need_mine' # need_mine /\ need_mine') => (WatchReturns /\ ~ListenerStep)
       /\ (current_game' # current_game /\ current_game' # None) => ListenerStep
       /\ (current_game' # current_game /\ current_game' = None) =>
            (ListenerStep \/ pc' = "get_inventory")
       /\ (current_channel' # current_channel
            \/ claimed_drops_ids' # claimed_drops_ids) => ~ListenerStep]_vars

\* the main task has set the flag back after a watch that sent heartbeats,
\* and the listener had cleared it
C17_Witness ==
    /\ pc = "switch_channel_topic"
    /\ watchEnd = "mined"
    /\ sent
    /\ need_mine
    /\ lpc = "returned"

(***************************************************************************)
(* C18: while a heartbeat to channel C is pending or the loop sleeps       *)
(* between heartbeats, the event stream's per-channel topic is C's.        *)
(***************************************************************************)
C18_SubscribedToWatchedChannel ==
    pc \in {"send_watch", "sleep15"} => subscribed = current_channel.id

(***************************************************************************)
(* C19: the current channel is none whenever run is selecting (and before  *)
(* the loop and after run); from the start of a watch to the inner finally *)
(* it is the selected streamer, the channel every send_watch is for.       *)
(***************************************************************************)
C19_ChannelOnlyWhileWatching ==
    /\ (Selecting \/ pc \in {"connect", "exited"}) => current_channel = NoChannel
    /\ pc \in {"send_watch", "sleep15", "switch_channel_topic"} =>
            (current_channel # NoChannel /\ current_channel = streamer)

\* selecting again, the channel released, after a watch ended by a game change
C19_Witness ==
    /\ Selecting
    /\ watchEnd = "game_changed"
    /\ sent
    /\ current_channel = NoChannel

(***************************************************************************)
(* C20: the observed game id is none while run is selecting and at the     *)
(* step that starts a watch, and no watch is aborted by a game change at   *)
(* its first check.                                                        *)
(***************************************************************************)
C20_GameNoneAtWatchStart ==
    /\ [](Selecting => current_game = None)
    /\ [][WatchStarts =>
            (current_game = None /\ current_game' = None
                /\ watchEnd' # "game_changed")]_vars

\* a heartbeat is pending in a watch that started after the watch before it
\* was aborted by a game change
C20_Witness ==
    /\ pc = "send_watch"
    /\ prevEnd = "game_changed"
    /\ watchEnd = "none"

====
